---- MODULE Spec2Model ----
(***************************************************************************)
(* TF-IDF semantic search (backend/fastapi/services/semantic_search.py).   *)
(*                                                                         *)
(* Strings are sequences of one-character strings, numpy arrays and Python *)
(* lists are sequences read through 0-based accessors, and float64 weights *)
(* are integers.  A cosine similarity dot/(n1*n2) is kept exactly, as the  *)
(* sign of dot and the reduced fraction dot^2/(n1^2*n2^2): two scores are  *)
(* equal iff their representations are equal, and the order of scores is   *)
(* the order of sgn*num/den.  Floating-point rounding is not modelled.     *)
(***************************************************************************)
EXTENDS Integers, Sequences, FiniteSets, TLC

VARIABLES
    storage,             \* the three persisted artifacts under cache_dir
    tracing,             \* TRUE iff tracer spans are real objects (not MockTracer's None)
    active,              \* the semantic_search calls in flight or finished
    query,               \* query[c]: the query string of call c
    top_n,               \* top_n[c]: the requested number of results
    pc,                  \* pc[c]: the stage call c is about to run, or its outcome
    tfidf_data,          \* tfidf_data[c]: the bundle call c loaded
    query_vector,        \* query_vector[c]: column index -> weight
    cosine_similarities, \* cosine_similarities[c]: list of <<score, row>>
    top_results,         \* top_results[c]: the truncated sorted list
    results,             \* results[c]: the returned list of {score, document}
    error                \* error[c]: the exception that left semantic_search

vars == <<storage, tracing, active, query, top_n, pc, tfidf_data, query_vector,
          cosine_similarities, top_results, results, error>>

(***************************************************************************)
(* Bounds of the model.                                                    *)
(***************************************************************************)
MaxQueryTerms == 3    \* a generated query has at most this many terms
MaxTopN == 4          \* largest top_n tried
MaxNegTopN == 1       \* top_n is tried down to -MaxNegTopN
MaxCalls == 2         \* calls of semantic_search in flight together

\* def semantic_search(query, cache_dir, top_n: int = 5)
DefaultTopN == 5

(***************************************************************************)
(* Python / numpy primitives.                                              *)
(***************************************************************************)
Abs(x) == IF x < 0 THEN -x ELSE x

Sign(x) == IF x < 0 THEN -1 ELSE IF x > 0 THEN 1 ELSE 0

RECURSIVE GCD(_, _)
GCD(a, b) == IF b = 0 THEN a ELSE GCD(b, a % b)

\* arr[i] is defined for -len <= i < len; a negative i counts from the end.
InBounds(arr, i) == i >= -Len(arr) /\ i < Len(arr)

At(arr, i) == arr[(IF i < 0 THEN i + Len(arr) ELSE i) + 1]

\* arr[start:stop]: both ends are clamped, never an error.
Slice(arr, start, stop) ==
    LET n == Len(arr)
        Clamp(k) == IF k < 0 THEN (IF k + n < 0 THEN 0 ELSE k + n)
                    ELSE (IF k > n THEN n ELSE k)
        lo == Clamp(start)
        hi == Clamp(stop)
    IN  IF lo >= hi THEN <<>> ELSE SubSeq(arr, lo + 1, hi)

UpperChars == <<"A", "B", "E", "L", "N", "P", "Z">>

LowerChars == <<"a", "b", "e", "l", "n", "p", "z">>

\* str.lower(), character by character.
lower(s) ==
    [i \in 1..Len(s) |->
        IF \E k \in 1..Len(UpperChars) : UpperChars[k] = s[i]
        THEN LowerChars[CHOOSE k \in 1..Len(UpperChars) : UpperChars[k] = s[i]]
        ELSE s[i]]

Whitespace == {" ", "\t"}

RECURSIVE SplitFrom(_, _, _, _)
SplitFrom(s, i, cur, acc) ==
    IF i > Len(s)
    THEN (IF cur = <<>> THEN acc ELSE Append(acc, cur))
    ELSE IF s[i] \in Whitespace
         THEN SplitFrom(s, i + 1, <<>>, IF cur = <<>> THEN acc ELSE Append(acc, cur))
         ELSE SplitFrom(s, i + 1, Append(cur, s[i]), acc)

\* str.split() without arguments: runs of whitespace separate, none leads or trails.
split(s) == SplitFrom(s, 1, <<>>, <<>>)

\* list.count(x)
count(lst, x) == Cardinality({i \in 1..Len(lst) : lst[i] = x})

\* A raised exception / a returned value of one stage.
Raise(exc) == [ok |-> FALSE, exc |-> exc, value |-> <<>>]

Return(v) == [ok |-> TRUE, exc |-> "", value |-> v]

(***************************************************************************)
(* Persisted artifacts.  An artifact file is "ok", "missing" (no such      *)
(* file) or "encrypted" (a zip archive whose members cannot be extracted   *)
(* without a password); `has` is the set of fields the archive holds.      *)
(***************************************************************************)
apple == <<"a", "p", "p", "l", "e">>

APPLE == <<"A", "P", "P", "L", "E">>

Apple == <<"A", "p", "p", "l", "e">>

banana == <<"b", "a", "n", "a", "n", "a">>

zzz == <<"z", "z", "z">>

Space == <<" ">>

MatrixFields == {"data", "indices", "indptr", "shape"}

MetadataFields == {"vocabulary", "idf_values"}

DocumentFields == {"documents"}

\* The index of the ranking scenario: rows {0:1.0}, {1:2.0}, {0:1.0, 1:1.0}.
ScenarioStorage ==
    [matrix |-> [state |-> "ok", has |-> MatrixFields,
                 data |-> <<1, 2, 1, 1>>, indices |-> <<0, 1, 0, 1>>,
                 indptr |-> <<0, 1, 2, 4>>, shape |-> <<3, 2>>],
     metadata |-> [state |-> "ok", has |-> MetadataFields,
                   vocabulary |-> (apple :> 0 @@ banana :> 1),
                   idf_values |-> <<2, 3>>],
     documents |-> [state |-> "ok", has |-> DocumentFields,
                    documents |-> <<"doc0", "doc1", "doc2">>]]

\* Four rows {0:1}, {0:3}, {1:1}, {0:1, 1:1}: rows 0 and 1 tie at a non-zero score.
TieStorage ==
    [ScenarioStorage EXCEPT
        !.matrix.data = <<1, 3, 1, 1, 1>>, !.matrix.indices = <<0, 0, 1, 0, 1>>,
        !.matrix.indptr = <<0, 1, 2, 3, 5>>, !.matrix.shape = <<4, 2>>,
        !.documents.documents = <<"doc0", "doc1", "doc2", "doc3">>]

\* An index without documents.
EmptyStorage ==
    [ScenarioStorage EXCEPT
        !.matrix.data = <<>>, !.matrix.indices = <<>>, !.matrix.indptr = <<0>>,
        !.matrix.shape = <<0, 2>>, !.documents.documents = <<>>]

WellFormedStorages == {ScenarioStorage, TieStorage, EmptyStorage}

\* Artifact sets that are missing, unreadable or lack a field.
MissingMatrixStorage == [ScenarioStorage EXCEPT !.matrix.state = "missing"]

EncryptedMatrixStorage == [ScenarioStorage EXCEPT !.matrix.state = "encrypted"]

MissingFieldStorage == [ScenarioStorage EXCEPT !.metadata.has = {"vocabulary"}]

MissingDocumentsStorage == [ScenarioStorage EXCEPT !.documents.state = "missing"]

UnloadableStorages ==
    {MissingMatrixStorage, EncryptedMatrixStorage, MissingFieldStorage,
     MissingDocumentsStorage}

\* Artifact sets that load but break one structural invariant each.
\* len(data) # len(indices)
LongDataStorage == [ScenarioStorage EXCEPT !.matrix.data = <<1, 2, 1, 1, 9>>]

\* indptr[rows] # len(data)
ShortIndptrStorage == [ScenarioStorage EXCEPT !.matrix.indptr = <<0, 1, 2, 3>>]

\* a column index outside [0, cols)
BadColumnStorage == [ScenarioStorage EXCEPT !.matrix.indices = <<0, 1, 0, 2>>]

\* two terms on one column
SharedColumnStorage ==
    [ScenarioStorage EXCEPT !.metadata.vocabulary = (apple :> 0 @@ banana :> 0)]

\* len(idf_values) # cols
ShortIdfStorage == [ScenarioStorage EXCEPT !.metadata.idf_values = <<2>>]

\* len(documents) # rows
ShortDocumentsStorage ==
    [ScenarioStorage EXCEPT !.documents.documents = <<"doc0", "doc1">>]

MalformedStorages ==
    {LongDataStorage, ShortIndptrStorage, BadColumnStorage, SharedColumnStorage,
     ShortIdfStorage, ShortDocumentsStorage}

Storages == WellFormedStorages \cup UnloadableStorages \cup MalformedStorages

(***************************************************************************)
(* load_tfidf_components                                                   *)
(***************************************************************************)
\* np.load(path) followed by the reads of `fields`: the exception raised, or "".
np_load(artifact, fields) ==
    IF artifact.state = "missing" THEN "FileNotFoundError"
    ELSE IF artifact.state = "encrypted" THEN "RuntimeError"
    ELSE IF fields \ artifact.has # {} THEN "KeyError"
    ELSE ""

load_tfidf_components(cache_dir) ==
    LET matrix_data == cache_dir.matrix
        metadata == cache_dir.metadata
        document_metadata == cache_dir.documents
    IN  IF np_load(matrix_data, MatrixFields) # ""
        THEN Raise(np_load(matrix_data, MatrixFields))
        ELSE IF np_load(metadata, MetadataFields) # ""
        THEN Raise(np_load(metadata, MetadataFields))
        ELSE IF np_load(document_metadata, DocumentFields) # ""
        THEN Raise(np_load(document_metadata, DocumentFields))
        ELSE Return([tfidf_matrix |-> [data |-> matrix_data.data,
                                       indices |-> matrix_data.indices,
                                       indptr |-> matrix_data.indptr,
                                       shape |-> matrix_data.shape],
                     vocabulary |-> metadata.vocabulary,
                     idf_values |-> metadata.idf_values,
                     documents |-> document_metadata.documents])

(***************************************************************************)
(* vectorize_query                                                         *)
(***************************************************************************)
\* Variant: the query is split without being lower-cased.
tokens_case_sensitive(q) == split(q)

tokens(q) == split(lower(q))

\* Variant: every distinct token counts once.
token_counts_binary(q) ==
    LET toks == tokens(q)
    IN  [token \in {toks[i] : i \in 1..Len(toks)} |-> 1]

\* {token: tokens.count(token) for token in set(tokens)}
token_counts(q) ==
    LET toks == tokens(q)
    IN  [token \in {toks[i] : i \in 1..Len(toks)} |-> count(toks, token)]

\* The orders in which a dict built from set(tokens) may be iterated: the order
\* of a set of strings is unspecified (it depends on the strings' hashes).
IterationOrders(S) ==
    LET n == Cardinality(S)
    IN  {o \in [1..n -> S] : \A i, j \in 1..n : i # j => o[i] # o[j]}

\* Variant: index = vocabulary.get(term, 0), an unknown term lands on column 0.
RECURSIVE VectorizeLoopDefaultColumn(_, _, _, _, _, _)
VectorizeLoopDefaultColumn(order, k, counts, vocabulary, idf_values, vec) ==
    IF k > Len(order) THEN Return(vec)
    ELSE LET term == order[k]
             index == IF term \in DOMAIN vocabulary THEN vocabulary[term] ELSE 0
         IN  IF ~InBounds(idf_values, index) THEN Raise("IndexError")
             ELSE VectorizeLoopDefaultColumn(order, k + 1, counts, vocabulary, idf_values,
                      [c \in DOMAIN vec \cup {index} |->
                          IF c = index THEN counts[term] * At(idf_values, index)
                          ELSE vec[c]])

\* The loop over token_counts.items(), taken in `order`, from position k on.
RECURSIVE VectorizeLoop(_, _, _, _, _, _)
VectorizeLoop(order, k, counts, vocabulary, idf_values, vec) ==
    IF k > Len(order) THEN Return(vec)
    ELSE LET term == order[k]
         IN  IF term \in DOMAIN vocabulary
             THEN LET index == vocabulary[term]
                  IN  IF ~InBounds(idf_values, index) THEN Raise("IndexError")
                      ELSE VectorizeLoop(order, k + 1, counts, vocabulary, idf_values,
                               [c \in DOMAIN vec \cup {index} |->
                                   IF c = index THEN counts[term] * At(idf_values, index)
                                   ELSE vec[c]])
             ELSE VectorizeLoop(order, k + 1, counts, vocabulary, idf_values, vec)

vectorize_query(q, vocabulary, idf_values, order) ==
    LET counts == token_counts(q)
    IN  VectorizeLoop(order, 1, counts, vocabulary, idf_values, <<>>)

(***************************************************************************)
(* cosine_similarity_manual and the similarity loop                        *)
(***************************************************************************)
RECURSIVE Dot(_, _, _)
Dot(vec1, vec2, k) ==
    IF k > Len(vec1) THEN 0 ELSE vec1[k] * vec2[k] + Dot(vec1, vec2, k + 1)

Zero == [sgn |-> 0, num |-> 0, den |-> 1]

\* dot / sqrt(sq), sq > 0, in the exact representation.
Quotient(dot, sq) ==
    LET g == GCD(dot * dot, sq)
    IN  [sgn |-> Sign(dot), num |-> (dot * dot) \div g, den |-> sq \div g]

\* Variant: the dot product is divided by the norm of vec2 only.
cosine_similarity_unnormalised(vec1, vec2) ==
    LET dot_product == Dot(vec1, vec2, 1)
        norm_vec1_sq == Dot(vec1, vec1, 1)
        norm_vec2_sq == Dot(vec2, vec2, 1)
    IN  IF norm_vec1_sq # 0 /\ norm_vec2_sq # 0
        THEN Quotient(dot_product, norm_vec2_sq)
        ELSE Zero

cosine_similarity_manual(vec1, vec2) ==
    LET dot_product == Dot(vec1, vec2, 1)
        norm_vec1_sq == Dot(vec1, vec1, 1)
        norm_vec2_sq == Dot(vec2, vec2, 1)
    IN  IF norm_vec1_sq # 0 /\ norm_vec2_sq # 0
        THEN Quotient(dot_product, norm_vec1_sq * norm_vec2_sq)
        ELSE Zero

\* a < b on scores
ScoreLess(a, b) == a.sgn * a.num * b.den < b.sgn * b.num * a.den

\* np.zeros(n)
zeros(n) == [k \in 1..n |-> 0]

\* vec[idx[k]] = val[k] for the positions k.. of an index array (the last
\* assignment to a repeated index wins); a single value is broadcast.
RECURSIVE Scatter(_, _, _, _)
Scatter(vec, idx, val, k) ==
    IF k > Len(idx) THEN vec
    ELSE Scatter([vec EXCEPT ![(IF idx[k] < 0 THEN idx[k] + Len(vec) ELSE idx[k]) + 1] =
                      IF Len(val) = 1 THEN val[1] ELSE val[k]],
                 idx, val, k + 1)

\* document_vector[indices[start:end]] = data[start:end]
AssignSlice(vec, idx, val) ==
    IF \E k \in 1..Len(idx) : ~InBounds(vec, idx[k]) THEN Raise("IndexError")
    ELSE IF Len(val) # Len(idx) /\ Len(val) # 1 THEN Raise("ValueError")
    ELSE Return(Scatter(vec, idx, val, 1))

\* query_sparse_vector[index] = value for every item of query_vector
QuerySparseVector(qv, cols) ==
    IF \E index \in DOMAIN qv : ~InBounds(zeros(cols), index) THEN Raise("IndexError")
    ELSE Return([k \in 1..cols |->
                    IF \E index \in DOMAIN qv : (IF index < 0 THEN index + cols ELSE index) = k - 1
                    THEN qv[CHOOSE index \in DOMAIN qv :
                                (IF index < 0 THEN index + cols ELSE index) = k - 1]
                    ELSE 0])

\* The body of the loop `for i in range(shape[0])`, for row i.
RowSimilarity(tfidf_matrix, query_sparse_vector, i) ==
    LET indptr == tfidf_matrix.indptr
    IN  IF ~InBounds(indptr, i) \/ ~InBounds(indptr, i + 1) THEN Raise("IndexError")
        ELSE LET start_idx == At(indptr, i)
                 end_idx == At(indptr, i + 1)
                 assigned == AssignSlice(zeros(tfidf_matrix.shape[2]),
                                         Slice(tfidf_matrix.indices, start_idx, end_idx),
                                         Slice(tfidf_matrix.data, start_idx, end_idx))
             IN  IF ~assigned.ok THEN assigned
                 ELSE Return(<<cosine_similarity_manual(assigned.value, query_sparse_vector), i>>)

RECURSIVE SimilarityLoop(_, _, _, _)
SimilarityLoop(tfidf_matrix, query_sparse_vector, i, acc) ==
    IF i >= tfidf_matrix.shape[1] THEN Return(acc)
    ELSE LET r == RowSimilarity(tfidf_matrix, query_sparse_vector, i)
         IN  IF ~r.ok THEN r
             ELSE SimilarityLoop(tfidf_matrix, query_sparse_vector, i + 1, Append(acc, r.value))

\* Lines 156-179: the list of (score, row) pairs in row order, or the exception.
calculate_similarities(tfidf_matrix, qv) ==
    LET query_sparse_vector == QuerySparseVector(qv, tfidf_matrix.shape[2])
    IN  IF ~query_sparse_vector.ok THEN query_sparse_vector
        ELSE SimilarityLoop(tfidf_matrix, query_sparse_vector.value, 0, <<>>)

(***************************************************************************)
(* Sorting, truncation and assembly                                        *)
(***************************************************************************)
\* Variant: x goes before the elements of equal score (equal scores end in
\* descending row order, as sort(reverse=True) without the key would leave them).
InsertDescendingStrict(sorted, x) ==
    LET before == Cardinality({j \in 1..Len(sorted) : ScoreLess(x[1], sorted[j][1])})
    IN  SubSeq(sorted, 1, before) \o <<x>> \o SubSeq(sorted, before + 1, Len(sorted))

\* Where list.sort(reverse=True, key=score) places x among the already sorted
\* earlier elements: after every element whose score is not smaller (the sort
\* is stable, and reverse=True keeps the original order of equal elements).
InsertDescending(sorted, x) ==
    LET before == Cardinality({j \in 1..Len(sorted) : ~ScoreLess(sorted[j][1], x[1])})
    IN  SubSeq(sorted, 1, before) \o <<x>> \o SubSeq(sorted, before + 1, Len(sorted))

RECURSIVE SortFrom(_, _, _)
SortFrom(lst, k, sorted) ==
    IF k > Len(lst) THEN sorted
    ELSE SortFrom(lst, k + 1, InsertDescending(sorted, lst[k]))

\* cosine_similarities.sort(reverse=True, key=lambda x: x[0])
sort_reverse(lst) == SortFrom(lst, 1, <<>>)

\* Variant: cosine_similarities[:top_n + 1]
truncate_one_more(lst, n) == Slice(lst, 0, n + 1)

\* cosine_similarities[:top_n]
truncate(lst, n) == Slice(lst, 0, n)

\* Variant: a row without a document record is skipped instead of failing.
RECURSIVE AssembleLoopBestEffort(_, _, _, _)
AssembleLoopBestEffort(top, documents, k, acc) ==
    IF k > Len(top) THEN Return(acc)
    ELSE IF ~InBounds(documents, top[k][2])
    THEN AssembleLoopBestEffort(top, documents, k + 1, acc)
    ELSE AssembleLoopBestEffort(top, documents, k + 1,
             Append(acc, [score |-> top[k][1], document |-> At(documents, top[k][2])]))

\* Variant: the document is taken at the position in the ranking, not at the row.
RECURSIVE AssembleLoopByPosition(_, _, _, _)
AssembleLoopByPosition(top, documents, k, acc) ==
    IF k > Len(top) THEN Return(acc)
    ELSE IF ~InBounds(documents, k - 1) THEN Raise("IndexError")
    ELSE AssembleLoopByPosition(top, documents, k + 1,
             Append(acc, [score |-> top[k][1], document |-> At(documents, k - 1)]))

\* The loop over top_results that builds `results`.
RECURSIVE AssembleLoop(_, _, _, _)
AssembleLoop(top, documents, k, acc) ==
    IF k > Len(top) THEN Return(acc)
    ELSE IF ~InBounds(documents, top[k][2]) THEN Raise("IndexError")
    ELSE AssembleLoop(top, documents, k + 1,
             Append(acc, [score |-> top[k][1], document |-> At(documents, top[k][2])]))

assemble(top, documents) == AssembleLoop(top, documents, 1, <<>>)

(***************************************************************************)
(* semantic_search: one call is the four stages below, in order.           *)
(***************************************************************************)
NoError == [type |-> "", message |-> "", cause |-> ""]

\* An exception that leaves semantic_search as it was raised.
Unwrapped(exc) == [type |-> exc, message |-> "", cause |-> ""]

\* raise RuntimeError(f"{message}: {e}") inside the handler of e.
Wrapped(message, exc) == [type |-> "RuntimeError", message |-> message, cause |-> exc]

\* isinstance(e, RuntimeError)
IsRuntimeError(exc) == exc \in {"RuntimeError", "NotImplementedError", "RecursionError"}

\* try: load ... except RuntimeError as e: the exception that leaves the call.
\* The handler's `trace.Status(...)` names a module this file never imports:
\* with a real span it raises NameError before the wrapping raise is reached.
LoadHandler(exc, span) ==
    IF IsRuntimeError(exc)
    THEN (IF span THEN Unwrapped("NameError") ELSE Wrapped("Semantic search failed", exc))
    ELSE Unwrapped(exc)

\* except Exception as e around vectorize_query
VectorizeHandler(exc) == Wrapped("Query vectorization failed", exc)

\* except Exception as e around the similarity loop, the sort and the assembly
SearchHandler(exc) == Wrapped("Semantic search failed", exc)

NoBundle ==
    [tfidf_matrix |-> [data |-> <<>>, indices |-> <<>>, indptr |-> <<>>, shape |-> <<0, 0>>],
     vocabulary |-> <<>>, idf_values |-> <<>>, documents |-> <<>>]

\* The words joined by single spaces.
RECURSIVE Join(_)
Join(words) ==
    IF words = <<>> THEN <<>>
    ELSE IF Len(words) = 1 THEN words[1]
    ELSE words[1] \o Space \o Join(Tail(words))

Words == {apple, APPLE, banana}

GeneratedQueries ==
    {Join(w) : w \in UNION {[1..n -> Words] : n \in 0..MaxQueryTerms}}

\* Unknown terms, mixed case, tabs, runs of whitespace, leading and trailing
\* whitespace, words run together, whitespace only.
ExtraQueries ==
    {zzz,
     Apple \o Space \o apple,
     apple \o <<"\t">> \o banana,
     apple \o Space \o zzz \o Space \o apple,
     Space \o Space \o apple \o Space \o Space \o APPLE \o Space,
     apple \o apple,
     Space}

Queries == GeneratedQueries \cup ExtraQueries

TopNs == (-MaxNegTopN)..MaxTopN

\* The stage that follows stage s in the body of semantic_search.
Following(s) ==
    CASE s = "load" -> "vectorize"
      [] s = "vectorize" -> "similarities"
      [] s = "similarities" -> "assemble"
      [] OTHER -> "returned"

\* Variant: the handler logs the exception and does not raise, so the call
\* goes on with the stage that follows.
Logged(c, err) ==
    /\ pc' = [pc EXCEPT ![c] = Following(pc[c])]
    /\ error' = [error EXCEPT ![c] = err]

\* raise: the exception leaves the call and no later statement runs.
Raised(c, err) ==
    /\ pc' = [pc EXCEPT ![c] = "raised"]
    /\ error' = [error EXCEPT ![c] = err]

InitCalls(calls) ==
    /\ active = calls
    /\ pc = [c \in calls |-> "load"]
    /\ tfidf_data = [c \in calls |-> NoBundle]
    /\ query_vector = [c \in calls |-> <<>>]
    /\ cosine_similarities = [c \in calls |-> <<>>]
    /\ top_results = [c \in calls |-> <<>>]
    /\ results = [c \in calls |-> <<>>]
    /\ error = [c \in calls |-> NoError]

Init ==
    /\ storage \in Storages
    /\ tracing \in BOOLEAN
    /\ query \in [{1} -> Queries]
    /\ top_n \in [{1} -> TopNs]
    /\ InitCalls({1})

\* Lines 127-139: tfidf_data = load_tfidf_components(cache_dir)
Load(c) ==
    /\ pc[c] = "load"
    /\ LET loaded == load_tfidf_components(storage)
       IN  IF loaded.ok
           THEN /\ tfidf_data' = [tfidf_data EXCEPT ![c] = loaded.value]
                /\ pc' = [pc EXCEPT ![c] = "vectorize"]
                /\ UNCHANGED error
           ELSE /\ Raised(c, LoadHandler(loaded.exc, tracing))
                /\ UNCHANGED tfidf_data
    /\ UNCHANGED <<storage, tracing, active, query, top_n, query_vector,
                   cosine_similarities, top_results, results>>

\* Variant: query_vector is kept in one module-level name, so the assignment
\* of one call is what every call in flight reads next.
VectorizeShared(c) ==
    /\ pc[c] = "vectorize"
    /\ \E order \in IterationOrders(DOMAIN token_counts(query[c])) :
         LET vectorized == vectorize_query(query[c], tfidf_data[c].vocabulary,
                                           tfidf_data[c].idf_values, order)
         IN  IF vectorized.ok
             THEN /\ query_vector' = [d \in active |-> vectorized.value]
                  /\ pc' = [pc EXCEPT ![c] = "similarities"]
                  /\ UNCHANGED error
             ELSE /\ Raised(c, VectorizeHandler(vectorized.exc))
                  /\ UNCHANGED query_vector
    /\ UNCHANGED <<storage, tracing, active, query, top_n, tfidf_data,
                   cosine_similarities, top_results, results>>

\* Lines 142-148: query_vector = vectorize_query(query, vocabulary, idf_values)
Vectorize(c) ==
    /\ pc[c] = "vectorize"
    /\ \E order \in IterationOrders(DOMAIN token_counts(query[c])) :
         LET vectorized == vectorize_query(query[c], tfidf_data[c].vocabulary,
                                           tfidf_data[c].idf_values, order)
         IN  IF vectorized.ok
             THEN /\ query_vector' = [query_vector EXCEPT ![c] = vectorized.value]
                  /\ pc' = [pc EXCEPT ![c] = "similarities"]
                  /\ UNCHANGED error
             ELSE /\ Raised(c, VectorizeHandler(vectorized.exc))
                  /\ UNCHANGED query_vector
    /\ UNCHANGED <<storage, tracing, active, query, top_n, tfidf_data,
                   cosine_similarities, top_results, results>>

\* Lines 151-184: the calculate_similarities span
Similarities(c) ==
    /\ pc[c] = "similarities"
    /\ LET scored == calculate_similarities(tfidf_data[c].tfidf_matrix, query_vector[c])
       IN  IF scored.ok
           THEN /\ cosine_similarities' = [cosine_similarities EXCEPT ![c] = scored.value]
                /\ pc' = [pc EXCEPT ![c] = "assemble"]
                /\ UNCHANGED error
           ELSE /\ Raised(c, SearchHandler(scored.exc))
                /\ UNCHANGED cosine_similarities
    /\ UNCHANGED <<storage, tracing, active, query, top_n, tfidf_data, query_vector,
                   top_results, results>>

\* Lines 186-209: sort, truncate, map rows to documents and return
Assemble(c) ==
    /\ pc[c] = "assemble"
    /\ LET sorted == sort_reverse(cosine_similarities[c])
           top == truncate(sorted, top_n[c])
           assembled == assemble(top, tfidf_data[c].documents)
       IN  /\ cosine_similarities' = [cosine_similarities EXCEPT ![c] = sorted]
           /\ top_results' = [top_results EXCEPT ![c] = top]
           /\ IF assembled.ok
              THEN /\ results' = [results EXCEPT ![c] = assembled.value]
                   /\ pc' = [pc EXCEPT ![c] = "returned"]
                   /\ UNCHANGED error
              ELSE /\ Raised(c, SearchHandler(assembled.exc))
                   /\ UNCHANGED results
    /\ UNCHANGED <<storage, tracing, active, query, top_n, tfidf_data, query_vector>>

\* A step of semantic_search: some call runs its next stage.
Next ==
    \/ \E c \in active : Load(c)
    \/ \E c \in active : Vectorize(c)
    \/ \E c \in active : Similarities(c)
    \/ \E c \in active : Assemble(c)

Spec == Init /\ [][Next]_vars

(***************************************************************************)
(* Vocabulary of the properties.                                           *)
(***************************************************************************)
Min(a, b) == IF a < b THEN a ELSE b

Max(a, b) == IF a > b THEN a ELSE b

Returned(c) == pc[c] = "returned"

Failed(c) == pc[c] = "raised"

Loaded(c) == pc[c] \in {"vectorize", "similarities", "assemble", "returned"}

Rows(c) == tfidf_data[c].tfidf_matrix.shape[1]

\* The structural invariants of an index bundle.
WellFormedBundle(b) ==
    LET m == b.tfidf_matrix
        rows == m.shape[1]
        cols == m.shape[2]
    IN  /\ Len(m.data) = Len(m.indices)
        /\ Len(m.indptr) = rows + 1
        /\ m.indptr[1] = 0
        /\ m.indptr[rows + 1] = Len(m.data)
        /\ \A r \in 1..rows : m.indptr[r] <= m.indptr[r + 1]
        /\ \A k \in 1..Len(m.indices) : m.indices[k] >= 0 /\ m.indices[k] < cols
        /\ \A t, u \in DOMAIN b.vocabulary :
               b.vocabulary[t] = b.vocabulary[u] => t = u
        /\ {b.vocabulary[t] : t \in DOMAIN b.vocabulary} = 0..(cols - 1)
        /\ Len(b.idf_values) = cols
        /\ Len(b.documents) = rows

(***************************************************************************)
(* C1. Every failure of a stage of semantic_search reaches the caller as   *)
(* the wrapping RuntimeError that names the stage and carries the cause;   *)
(* no other exception, a raw loader exception in particular, leaves the    *)
(* call.                                                                   *)
(***************************************************************************)
C1_EveryFailureIsWrapped ==
    \A c \in active :
        Failed(c) =>
            /\ error[c].type = "RuntimeError"
            /\ error[c].message \in {"Semantic search failed", "Query vectorization failed"}
            /\ error[c].cause # ""

(***************************************************************************)
(* C2. The loader fails on every artifact set that is missing, unreadable  *)
(* or structurally invalid: a call that got past loading holds a bundle    *)
(* that satisfies the structural invariants.                               *)
(***************************************************************************)
C2_LoadedBundleIsWellFormed ==
    \A c \in active : Loaded(c) => WellFormedBundle(tfidf_data[c])

(***************************************************************************)
(* C3. With top_n >= 0 a call either raises and returns nothing, or        *)
(* returns exactly min(top_n, rows) results.                               *)
(***************************************************************************)
C3_AllOrNothing ==
    \A c \in active :
        top_n[c] >= 0 =>
            /\ Returned(c) =>
                   /\ Len(results[c]) = Min(top_n[c], Rows(c))
                   /\ error[c] = NoError
            /\ ~Returned(c) => results[c] = <<>>

\* A call asked for more results than there are rows and got every row.
C3_Witness ==
    \E c \in active :
        /\ Returned(c)
        /\ top_n[c] > Rows(c)
        /\ Rows(c) > 0
        /\ Len(results[c]) = Rows(c)

\* A call failed while mapping rows to documents, after some row had been mapped.
C3_PartWayFailure ==
    \E c \in active :
        /\ Failed(c)
        /\ error[c] = Wrapped("Semantic search failed", "IndexError")
        /\ Len(top_results[c]) = 3
        /\ InBounds(tfidf_data[c].documents, top_results[c][1][2])
        /\ ~InBounds(tfidf_data[c].documents, top_results[c][3][2])

(***************************************************************************)
(* C4 as stated. For every integer top_n, a returned sequence has length   *)
(* at most top_n.                                                          *)
(***************************************************************************)
C4_LengthAtMostTopN ==
    \A c \in active : Returned(c) => Len(results[c]) <= top_n[c]

(***************************************************************************)
(* C4 amended. A returned sequence has length at most top_n when           *)
(* top_n >= 0; for a negative top_n it has max(rows + top_n, 0) entries    *)
(* (the ranking without its last -top_n rows).                             *)
(***************************************************************************)
C4_LengthBySliceSemantics ==
    \A c \in active :
        Returned(c) =>
            IF top_n[c] >= 0
            THEN Len(results[c]) <= top_n[c]
            ELSE Len(results[c]) = Max(Rows(c) + top_n[c], 0)

\* A call with a negative top_n returned a non-empty sequence.
C4_Witness ==
    \E c \in active : Returned(c) /\ top_n[c] < 0 /\ Len(results[c]) > 0

(***************************************************************************)
(* The cosine similarity of matrix row i with a query vector, from the     *)
(* row's sparse slice: dot(row, query) / (|row| * |query|), and 0 when     *)
(* either norm is 0.                                                       *)
(***************************************************************************)
RECURSIVE SumOver(_)
SumOver(f) ==
    IF DOMAIN f = {} THEN 0
    ELSE LET x == CHOOSE y \in DOMAIN f : TRUE
         IN  f[x] + SumOver([y \in DOMAIN f \ {x} |-> f[y]])

RowPositions(b, i) ==
    (b.tfidf_matrix.indptr[i + 1] + 1)..Min(b.tfidf_matrix.indptr[i + 2],
                                            Len(b.tfidf_matrix.indices))

RowCosine(b, qv, i) ==
    LET m == b.tfidf_matrix
        dot == SumOver([k \in RowPositions(b, i) |->
                   IF m.indices[k] \in DOMAIN qv THEN m.data[k] * qv[m.indices[k]] ELSE 0])
        rowsq == SumOver([k \in RowPositions(b, i) |-> m.data[k] * m.data[k]])
        qsq == SumOver([col \in DOMAIN qv |-> qv[col] * qv[col]])
    IN  IF rowsq # 0 /\ qsq # 0 THEN Quotient(dot, rowsq * qsq) ELSE Zero

\* The rows a call returned, in the order of its results.
ReturnedRows(c) == {top_results[c][k][2] : k \in 1..Len(top_results[c])}

One == [sgn |-> 1, num |-> 1, den |-> 1]

OneOverSqrt2 == [sgn |-> 1, num |-> 1, den |-> 2]

(***************************************************************************)
(* C5. Returned results are ordered by score descending, equal scores in   *)
(* ascending order of their matrix row.                                    *)
(***************************************************************************)
C5_DescendingStableOrder ==
    \A c \in active :
        Returned(c) =>
            /\ Len(results[c]) = Len(top_results[c])
            /\ \A k \in 1..Len(results[c]) : results[c][k].score = top_results[c][k][1]
            /\ \A k \in 1..(Len(results[c]) - 1) :
                   \/ ScoreLess(results[c][k + 1].score, results[c][k].score)
                   \/ /\ results[c][k].score = results[c][k + 1].score
                      /\ top_results[c][k][2] < top_results[c][k + 1][2]

\* A result list with a tie at a non-zero score, and a later row ranked first.
C5_Witness ==
    \E c \in active :
        /\ Returned(c)
        /\ \E k \in 1..(Len(results[c]) - 1) :
               /\ results[c][k].score = results[c][k + 1].score
               /\ results[c][k].score # Zero
        /\ \E k \in 1..(Len(results[c]) - 1) :
               /\ ScoreLess(results[c][k + 1].score, results[c][k].score)
               /\ top_results[c][k][2] > top_results[c][k + 1][2]

(***************************************************************************)
(* C6. The returned rows are the most similar ones: no row left out has a  *)
(* larger cosine similarity with the query than a returned row; and in the *)
(* ranking scenario, query "apple apple" with top_n = 2 returns doc0       *)
(* (score 1) then doc2 (score 1/sqrt 2).                                   *)
(***************************************************************************)
C6_TopNMostSimilar ==
    \A c \in active :
        Returned(c) =>
            /\ \A r \in ReturnedRows(c) :
                   LET cosine_r == RowCosine(tfidf_data[c], query_vector[c], r)
                   IN  \A q \in (0..(Rows(c) - 1)) \ ReturnedRows(c) :
                           ~ScoreLess(cosine_r, RowCosine(tfidf_data[c], query_vector[c], q))
            /\ (/\ storage = ScenarioStorage
                /\ query[c] = apple \o Space \o apple
                /\ top_n[c] = 2)
                   => results[c] = <<[score |-> One, document |-> "doc0"],
                                     [score |-> OneOverSqrt2, document |-> "doc2"]>>

\* The ranking scenario has returned.
C6_Witness ==
    \E c \in active :
        /\ Returned(c)
        /\ storage = ScenarioStorage
        /\ query[c] = apple \o Space \o apple
        /\ top_n[c] = 2
        /\ ReturnedRows(c) = {0, 2}

(***************************************************************************)
(* C7. Each result pairs the score of a row with the record of that row.   *)
(***************************************************************************)
C7_ScoreAndDocumentOfOneRow ==
    \A c \in active :
        Returned(c) =>
            /\ Len(results[c]) = Len(top_results[c])
            /\ \A k \in 1..Len(results[c]) :
                   LET i == top_results[c][k][2]
                   IN  /\ i \in 0..(Rows(c) - 1)
                       /\ results[c][k].score
                              = RowCosine(tfidf_data[c], query_vector[c], i)
                       /\ results[c][k].document = tfidf_data[c].documents[i + 1]
            /\ \A j, k \in 1..Len(results[c]) :
                   j # k => top_results[c][j][2] # top_results[c][k][2]

\* A returned list whose order differs from the row order.
C7_Witness ==
    \E c \in active :
        /\ Returned(c)
        /\ Len(results[c]) >= 2
        /\ top_results[c][1][2] > top_results[c][2][2]
        /\ results[c][1].score # results[c][2].score

\* The distinct lower-cased whitespace-separated terms of a query string.
QueryTerms(q) == LET terms == split(lower(q)) IN {terms[i] : i \in 1..Len(terms)}

\* The artifact set loads and satisfies the structural invariants.
WellFormedStorage(st) ==
    /\ load_tfidf_components(st).ok
    /\ WellFormedBundle(load_tfidf_components(st).value)

\* No term of the query is in the stored vocabulary (the empty query included).
UnknownQuery(c) == QueryTerms(query[c]) \cap DOMAIN storage.metadata.vocabulary = {}

\* What an all-unknown query gives on a well-formed index when `kept` rows are
\* returned: no error, an empty query vector, score 0.0 for every row, and
\* the records of rows 0 .. kept-1 in row order.
UnknownQueryOutcome(c, kept) ==
    /\ ~Failed(c)
    /\ pc[c] \in {"similarities", "assemble", "returned"} => query_vector[c] = <<>>
    /\ pc[c] \in {"assemble", "returned"} =>
           /\ Len(cosine_similarities[c]) = Rows(c)
           /\ \A k \in 1..Rows(c) : cosine_similarities[c][k] = <<Zero, k - 1>>
    /\ Returned(c) =>
           results[c] = [k \in 1..kept |->
                            [score |-> Zero, document |-> storage.documents.documents[k]]]

(***************************************************************************)
(* C8 as stated. A query with no term in the vocabulary raises no error,   *)
(* has an empty query vector, scores every row 0.0, and returns the        *)
(* records of rows 0 .. min(top_n, rows)-1 in that order.                  *)
(***************************************************************************)
C8_UnknownQueryRowOrder ==
    \A c \in active :
        (WellFormedStorage(storage) /\ UnknownQuery(c)) =>
            UnknownQueryOutcome(c, Min(top_n[c], storage.matrix.shape[1]))

(***************************************************************************)
(* C8 amended. On an index that loads and is well formed, a query with no  *)
(* term in the vocabulary raises no error, has an empty query vector,      *)
(* scores every row 0.0, and returns the records of rows 0 .. k-1 in that  *)
(* order, where k = min(top_n, rows) for top_n >= 0 and                    *)
(* k = max(rows + top_n, 0) for top_n < 0.                                 *)
(***************************************************************************)
C8_UnknownQueryRowOrderBySlice ==
    \A c \in active :
        (WellFormedStorage(storage) /\ UnknownQuery(c)) =>
            UnknownQueryOutcome(c,
                IF top_n[c] >= 0 THEN Min(top_n[c], storage.matrix.shape[1])
                ELSE Max(storage.matrix.shape[1] + top_n[c], 0))

\* Query "zzz" with top_n = 2 on the three-row scenario returned doc0, doc1.
C8_Witness ==
    \E c \in active :
        /\ Returned(c)
        /\ storage = ScenarioStorage
        /\ query[c] = zzz
        /\ top_n[c] = 2
        /\ results[c] = <<[score |-> Zero, document |-> "doc0"],
                          [score |-> Zero, document |-> "doc1"]>>

(***************************************************************************)
(* The vectorizer on its own: two calls hold the same loaded bundle and    *)
(* two query strings with the same multiset of lower-cased terms, and each *)
(* vectorizes its query.                                                   *)
(***************************************************************************)
\* The number of occurrences of term t in the query string.
Occurrences(q, t) ==
    LET terms == split(lower(q)) IN Cardinality({i \in 1..Len(terms) : terms[i] = t})

\* The multiset of lower-cased terms of a query string.
TermCounts(q) == [t \in QueryTerms(q) |-> Occurrences(q, t)]

SameTerms(q1, q2) == TermCounts(q1) = TermCounts(q2)

TermCountsOf == [q \in Queries |-> TermCounts(q)]

VectorizerStorages == {ScenarioStorage, SharedColumnStorage, ShortIdfStorage}

InitVectorize ==
    /\ query \in [{1, 2} -> Queries]
    /\ TermCountsOf[query[1]] = TermCountsOf[query[2]]
    /\ storage \in VectorizerStorages
    /\ tracing = FALSE
    /\ top_n = [c \in {1, 2} |-> DefaultTopN]
    /\ active = {1, 2}
    /\ pc = [c \in {1, 2} |-> "vectorize"]
    /\ tfidf_data = [c \in {1, 2} |-> load_tfidf_components(storage).value]
    /\ query_vector = [c \in {1, 2} |-> <<>>]
    /\ cosine_similarities = [c \in {1, 2} |-> <<>>]
    /\ top_results = [c \in {1, 2} |-> <<>>]
    /\ results = [c \in {1, 2} |-> <<>>]
    /\ error = [c \in {1, 2} |-> NoError]

NextVectorize == \E c \in active : Vectorize(c)

SpecVectorize == InitVectorize /\ [][NextVectorize]_vars

Vectorized(c) == pc[c] \in {"similarities", "assemble", "returned"}

\* The terms of call c's query that are in the vocabulary it loaded.
KnownTerms(c) == QueryTerms(query[c]) \cap DOMAIN tfidf_data[c].vocabulary

\* No two known terms of the query share a column.
DistinctColumns(c) ==
    \A t, u \in KnownTerms(c) :
        tfidf_data[c].vocabulary[t] = tfidf_data[c].vocabulary[u] => t = u

ArgumentsUnchanged(c) ==
    /\ tfidf_data[c].vocabulary = storage.metadata.vocabulary
    /\ tfidf_data[c].idf_values = storage.metadata.idf_values

\* vectorize_query fails only on a known term whose column idf_values lacks.
FailsOnlyOnMissingIdf(c) ==
    (Failed(c) /\ error[c].message = "Query vectorization failed") =>
        \E t \in KnownTerms(c) :
            ~InBounds(tfidf_data[c].idf_values, tfidf_data[c].vocabulary[t])

ConcurrentStorages ==
    {ScenarioStorage, SharedColumnStorage, ShortDocumentsStorage, EncryptedMatrixStorage}

\* The (query, top_n) pairs a call in flight may be given.
ConcurrentArguments ==
    << <<apple, 1>>,
       <<apple, DefaultTopN>>,
       <<apple \o Space \o apple \o Space \o banana, 1>>,
       <<apple \o Space \o apple \o Space \o banana, DefaultTopN>>,
       <<zzz, 1>>,
       <<zzz, DefaultTopN>> >>

ConcurrentQueries == {ConcurrentArguments[i][1] : i \in DOMAIN ConcurrentArguments}

ConcurrentTopNs == {ConcurrentArguments[i][2] : i \in DOMAIN ConcurrentArguments}

\* The calls differ only by their arguments and every stage treats the calls
\* alike, so the calls are numbered in the order of their arguments.
InitConcurrent ==
    /\ storage \in ConcurrentStorages
    /\ tracing \in BOOLEAN
    /\ \E pick \in [1..MaxCalls -> DOMAIN ConcurrentArguments] :
          /\ \A c, d \in 1..MaxCalls : c <= d => pick[c] <= pick[d]
          /\ query = [c \in 1..MaxCalls |-> ConcurrentArguments[pick[c]][1]]
          /\ top_n = [c \in 1..MaxCalls |-> ConcurrentArguments[pick[c]][2]]
    /\ InitCalls(1..MaxCalls)

SpecConcurrent == InitConcurrent /\ [][Next]_vars

\* What one call leaves behind: the list it returned or the exception it raised.
Outcome(res, err) == [results |-> res, error |-> err]

\* semantic_search(q, cache_dir, n) from the bundle on, with the dict of token
\* counts iterated in `order`.
RunFrom(bundle, q, n, order) ==
    LET vectorized == vectorize_query(q, bundle.vocabulary, bundle.idf_values, order)
    IN  IF ~vectorized.ok THEN Outcome(<<>>, VectorizeHandler(vectorized.exc))
        ELSE LET scored == calculate_similarities(bundle.tfidf_matrix, vectorized.value)
             IN  IF ~scored.ok THEN Outcome(<<>>, SearchHandler(scored.exc))
                 ELSE LET assembled == assemble(truncate(sort_reverse(scored.value), n),
                                                bundle.documents)
                      IN  IF ~assembled.ok
                          THEN Outcome(<<>>, SearchHandler(assembled.exc))
                          ELSE Outcome(assembled.value, NoError)

\* The outcomes of semantic_search(q, cache_dir, n) run on its own.
RunAlone(cache_dir, span, q, n) ==
    LET loaded == load_tfidf_components(cache_dir)
    IN  IF ~loaded.ok THEN {Outcome(<<>>, LoadHandler(loaded.exc, span))}
        ELSE {RunFrom(loaded.value, q, n, order) :
                 order \in IterationOrders(DOMAIN token_counts(q))}

\* RunAlone, tabulated over the arguments the calls in flight are given.
RunAloneOf ==
    [cache_dir \in ConcurrentStorages, span \in BOOLEAN,
     q \in ConcurrentQueries, n \in ConcurrentTopNs |-> RunAlone(cache_dir, span, q, n)]

\* The vectors vectorize_query(q, vocabulary, idf_values) can give from the
\* bundle of cache_dir.
VectorsAlone(cache_dir, q) ==
    LET bundle == load_tfidf_components(cache_dir).value
        made == {vectorize_query(q, bundle.vocabulary, bundle.idf_values, order) :
                    order \in IterationOrders(DOMAIN token_counts(q))}
    IN  {v.value : v \in {w \in made : w.ok}}

VectorsAloneOf ==
    [cache_dir \in ConcurrentStorages, q \in ConcurrentQueries |->
        IF load_tfidf_components(cache_dir).ok THEN VectorsAlone(cache_dir, q) ELSE {}]

\* The locals of call c's frame.
Frame(c) ==
    <<pc[c], tfidf_data[c], query_vector[c], cosine_similarities[c], top_results[c],
      results[c], error[c]>>

(***************************************************************************)
(* C11. Calls of semantic_search in flight together do not interfere:      *)
(* under every interleaving of their stages each call works on the bundle  *)
(* it loaded itself from storage and on the vector of its own query, a     *)
(* step of one call changes no local of another and never the storage or   *)
(* the arguments, and a call that ends has an outcome (returned list or    *)
(* raised error) that the same call run alone on that storage can have.    *)
(***************************************************************************)
C11_CallsDoNotInterfere ==
    /\ [](\A c \in active :
             /\ Loaded(c) => tfidf_data[c] = load_tfidf_components(storage).value
             /\ Vectorized(c) => query_vector[c] \in VectorsAloneOf[storage, query[c]]
             /\ (Returned(c) \/ Failed(c)) =>
                    Outcome(results[c], error[c])
                        \in RunAloneOf[storage, tracing, query[c], top_n[c]])
    /\ [][/\ storage' = storage
          /\ query' = query
          /\ top_n' = top_n
          /\ \E c \in active : \A d \in active \ {c} : Frame(d)' = Frame(d)]_vars

\* Call 1 ran all of its stages while call 2, with another query, was between
\* its vectorize stage and its similarity stage; the two hold different vectors.
C11_Witness ==
    /\ active = 1..MaxCalls
    /\ storage = ScenarioStorage
    /\ Returned(1)
    /\ pc[2] = "similarities"
    /\ query[1] = apple
    /\ query[2] = apple \o Space \o apple \o Space \o banana
    /\ query_vector[1] = (0 :> 2)
    /\ query_vector[2] = (0 :> 4 @@ 1 :> 3)
    /\ Len(results[1]) = top_n[1]

(***************************************************************************)
(* C12. Within a call of semantic_search the stages run at most once each  *)
(* and in the order load -> vectorize -> similarities -> sort, truncate    *)
(* and assemble.  A stage starts only when every earlier stage has         *)
(* succeeded: its outputs are unset until then.  A stage that fails ends   *)
(* the call with an error, and nothing of the call changes afterwards.     *)
(* When the similarity stage is done there is one (score, row) pair per    *)
(* row, in ascending row order, nothing being sorted yet.                  *)
(***************************************************************************)
Stages == {"load", "vectorize", "similarities", "assemble"}

StageSteps ==
    {<<s, Following(s)>> : s \in Stages} \cup {<<s, "raised">> : s \in Stages}

C12_StagesInOrder ==
    /\ [](\A c \in active :
             /\ pc[c] = "load" => tfidf_data[c] = NoBundle
             /\ pc[c] \in {"load", "vectorize"} => query_vector[c] = <<>>
             /\ pc[c] \in {"load", "vectorize", "similarities"} =>
                    cosine_similarities[c] = <<>> /\ top_results[c] = <<>>
             /\ ~Returned(c) => results[c] = <<>>
             /\ Failed(c) <=> error[c] # NoError
             /\ pc[c] = "assemble" =>
                    /\ Len(cosine_similarities[c]) = Rows(c)
                    /\ \A k \in 1..Len(cosine_similarities[c]) :
                           cosine_similarities[c][k][2] = k - 1)
    /\ [][\A c \in active :
             /\ pc'[c] # pc[c] => <<pc[c], pc'[c]>> \in StageSteps
             /\ pc'[c] = pc[c] => Frame(c)' = Frame(c)
             /\ (pc'[c] # pc[c] /\ pc'[c] = "raised") =>
                    /\ tfidf_data'[c] = tfidf_data[c]
                    /\ query_vector'[c] = query_vector[c]
                    /\ results'[c] = results[c]
                    /\ pc[c] # "assemble" =>
                           /\ cosine_similarities'[c] = cosine_similarities[c]
                           /\ top_results'[c] = top_results[c]]_vars

\* A call whose vectorize stage failed: the bundle is loaded, the call has
\* ended with the error of that stage, and no later stage has left anything.
C12_Witness ==
    \E c \in active :
        /\ Failed(c)
        /\ error[c] = Wrapped("Query vectorization failed", "IndexError")
        /\ tfidf_data[c] # NoBundle
        /\ query_vector[c] = <<>>
        /\ cosine_similarities[c] = <<>>
        /\ top_results[c] = <<>>
        /\ results[c] = <<>>

\* The similarity stage is done and the pairs are still in row order, the
\* best row not first: sorting has not happened.
C12_RowOrderBeforeSorting ==
    \E c \in active :
        /\ pc[c] = "assemble"
        /\ Len(cosine_similarities[c]) = 3
        /\ ScoreLess(cosine_similarities[c][1][1], cosine_similarities[c][2][1])

====
